---- MODULE Spec2Model ----
(***************************************************************************)
(* Call-lifecycle controller (dashboard/src/app/page.tsx, Home) and the    *)
(* session clock (CostTracker) of VoiceesGem, as one state machine.        *)
(*                                                                         *)
(* Every JavaScript callback (click handler up to its first await, the     *)
(* continuation after an await, a transport event handler, a setInterval   *)
(* callback) runs to completion on the single UI event loop, so each is    *)
(* one action.  The React state updates a callback makes are committed     *)
(* together with the re-render and the CostTracker effect they trigger.    *)
(* The transport library (PipecatClient / SmallWebRTCTransport) is the     *)
(* environment: it moves a client's transport state and delivers events.   *)
(***************************************************************************)
EXTENDS Integers, Sequences, FiniteSets, TLC

\* ---------------------------------------------------------------- bounds
MaxCalls == 2        \* startCall invocations (one client is created per invocation)
MaxTime == 2         \* largest value of the wall clock Date.now()
MaxEndInFlight == 1  \* endCall invocations awaiting disconnect() of one client

\* ------------------------------------------------------ program constants
maxPollAttempts == 10   \* page.tsx:113
COST_PER_SECOND == 5    \* CostTracker: 0.0005 per second, in units of 10^-4

Null == 0               \* null (startTime, clientRef.current)
Clients == 1..MaxCalls

VARIABLES
    status,        \* useState: "idle" | "connecting" | "active" | "error"
    startTime,     \* useState<number | null>
    isMuted,       \* useState(false)
    clientRef,     \* useRef<PipecatClient | null>: Null or a client
    nCalls,        \* startCall invocations so far; invocation i creates client i
    callPc,        \* callPc[i]: where invocation i of startCall stands
    client,        \* client[c]: the closure state and transport state of client c
    endAwait,      \* endAwait[c]: endCall invocations awaiting disconnect() of c
    now,           \* Date.now()
    duration,      \* CostTracker useState: elapsed time, in thousandths of a second
    cost,          \* CostTracker useState: in units of 10^-7
    timerRef,      \* CostTracker useRef: the interval last stored
    orphans,       \* pending tick intervals no longer reachable through timerRef
    ticked,        \* a tick has been emitted since status last became "active"
    lastCall,      \* the transport method the last callback called, and on which client
    mounted,       \* Home and CostTracker are mounted
    lastOp         \* observer: the callback that ran last (see Obs)

vars == <<status, startTime, isMuted, clientRef, nCalls, callPc, client, endAwait,
          now, duration, cost, timerRef, orphans, ticked, lastCall, mounted, lastOp>>

\* ------------------------------------------------------------- the clock
NoTimer == [set |-> FALSE, start |-> Null, live |-> FALSE]

\* CostTracker effect cleanup: if (timerRef.current) clearInterval(timerRef.current)
ClearTimer(tr) == IF tr.set THEN [tr EXCEPT !.live = FALSE] ELSE tr

\* CostTracker effect body, run with the props of the new render
RunEffect(isActive, st, tr, orph) ==
    IF isActive /\ st # Null
    THEN [ref |-> [set |-> TRUE, start |-> st, live |-> TRUE],
          orphans |-> IF tr.live THEN Append(orph, tr.start) ELSE orph]
    ELSE [ref |-> ClearTimer(tr), orphans |-> orph]

\* Render with a fault: the effect body runs without the cleanup of the
\* previous run
RenderNoCleanup(s, t) ==
    IF ((s = "active") = (status = "active")) /\ t = startTime
    THEN [ref |-> timerRef, orphans |-> orphans]
    ELSE RunEffect(s = "active", t, timerRef, orphans)

\* A re-render of Home with (s, t): the effect runs only when a dependency
\* [isActive, startTime] changed, its previous cleanup first.
Render(s, t) ==
    IF ((s = "active") = (status = "active")) /\ t = startTime
    THEN [ref |-> timerRef, orphans |-> orphans]
    ELSE RunEffect(s = "active", t, ClearTimer(timerRef), orphans)

\* setStatus(s); setStartTime(t) of one callback, batched into one render;
\* state updates of an unmounted component are dropped
Commit(s, t) ==
    /\ IF mounted
       THEN /\ status' = s
            /\ startTime' = t
            /\ timerRef' = Render(s, t).ref
            /\ orphans' = Render(s, t).orphans
            /\ ticked' = (ticked /\ status = "active" /\ s = "active")
       ELSE UNCHANGED <<status, startTime, timerRef, orphans, ticked>>
    /\ UNCHANGED mounted

NoRender == UNCHANGED <<status, startTime, timerRef, orphans, ticked, mounted>>

\* a call of a transport method on client c
Call(c, method) == [c |-> c, call |-> method]

NoCall == Call(Null, "none")

\* observer record: the callback that runs, the client it concerns, its
\* argument, the status it is entered with, and whether an endCall has
\* completed (lines 154-155 reached) with no startCall entered since
Obs(name, c, arg) ==
    [op |-> name, c |-> c, arg |-> arg, from |-> status,
     ended |-> IF name = "startCall" THEN FALSE
               ELSE IF name = "endCallResume" \/ (name = "endCall" /\ c = Null)
               THEN TRUE
               ELSE lastOp.ended]

\* ------------------------------------------------------------ transport
\* client.connected of the library: true in the transport states connected and
\* ready, which the model keeps as the one state "connected"
Connected(c) == client[c].tstate = "connected"

\* the states a "transportStateChanged" event can carry in transport state ts
Reported(ts) == IF ts = "connected" THEN {"connected", "ready"} ELSE {ts}

\* a client whose connect() was called and that is not closed
Open(c) == client[c].tstate \in {"connecting", "connected"}

\* client.disconnect(): the transport starts closing
Disconnect(cl, c) ==
    [cl EXCEPT ![c].disconnectCalled = TRUE,
               ![c].tstate = IF Open(c) THEN "disconnecting" ELSE @]

NewClient == [tstate |-> "none", connectionHandled |-> FALSE, pollAttempts |-> 0,
              connectionPoll |-> FALSE, mic |-> TRUE, disconnectCalled |-> FALSE]

Init ==
    /\ status = "idle"
    /\ startTime = Null
    /\ isMuted = FALSE
    /\ clientRef = Null
    /\ nCalls = 0
    /\ callPc = [i \in Clients |-> "none"]
    /\ client = [c \in Clients |-> NewClient]
    /\ endAwait = [c \in Clients |-> 0]
    /\ now = 1
    /\ duration = 0
    /\ cost = 0
    /\ timerRef = NoTimer
    /\ orphans = <<>>
    /\ ticked = FALSE
    /\ lastCall = NoCall
    /\ mounted = TRUE
    /\ lastOp = [op |-> "init", c |-> Null, arg |-> "", from |-> "idle",
                 ended |-> FALSE]

\* ------------------------------------------------- startCall (page.tsx:19)
\* lines 30-107: new client, handlers registered, client.connect() issued
OpenClient(cl, i) == [cl EXCEPT ![i].tstate = "connecting"]

\* lines 20-27, and 30-107 when no handle is held (no await before connect)
StartCall ==
    /\ nCalls < MaxCalls
    /\ nCalls' = nCalls + 1
    /\ Commit("connecting", startTime)
    /\ IF clientRef # Null
       THEN /\ client' = Disconnect(client, clientRef)
            /\ callPc' = [callPc EXCEPT ![nCalls + 1] = "awaitDisconnect"]
            /\ lastCall' = Call(clientRef, "disconnect")
       ELSE /\ client' = OpenClient(client, nCalls + 1)
            /\ callPc' = [callPc EXCEPT ![nCalls + 1] = "awaitConnect"]
            /\ lastCall' = Call(nCalls + 1, "connect")
    /\ UNCHANGED <<isMuted, clientRef, endAwait, now, duration, cost>>

\* line 26 resolved: lines 30-107
StartCallResume(i) ==
    /\ callPc[i] = "awaitDisconnect"
    /\ client' = OpenClient(client, i)
    /\ callPc' = [callPc EXCEPT ![i] = "awaitConnect"]
    /\ lastCall' = Call(i, "connect")
    /\ NoRender
    /\ UNCHANGED <<isMuted, clientRef, nCalls, endAwait, now, duration, cost>>

\* line 26 rejected: catch, lines 143-146
StartCallTeardownFailed(i) ==
    /\ callPc[i] = "awaitDisconnect"
    /\ callPc' = [callPc EXCEPT ![i] = "done"]
    /\ Commit("error", startTime)
    /\ lastCall' = NoCall
    /\ UNCHANGED <<isMuted, clientRef, nCalls, client, endAwait, now, duration, cost>>

\* line 103 resolved: lines 109-142, the poll is started and the client stored
ConnectResolved(i) ==
    /\ callPc[i] = "awaitConnect"
    /\ Open(i)
    /\ callPc' = [callPc EXCEPT ![i] = "done"]
    /\ client' = [client EXCEPT ![i].pollAttempts = 0, ![i].connectionPoll = TRUE]
    /\ clientRef' = i
    /\ lastCall' = NoCall
    /\ NoRender
    /\ UNCHANGED <<isMuted, nCalls, endAwait, now, duration, cost>>

\* line 103 rejected: catch, lines 143-146
ConnectRejected(i) ==
    /\ callPc[i] = "awaitConnect"
    /\ callPc' = [callPc EXCEPT ![i] = "done"]
    /\ client' = [client EXCEPT ![i].tstate = "error"]
    /\ Commit("error", startTime)
    /\ lastCall' = NoCall
    /\ UNCHANGED <<isMuted, clientRef, nCalls, endAwait, now, duration, cost>>

\* --------------------------------------------- event handlers (40-71)
\* OnTransportStateChanged with a fault: a reported state "disconnecting" is
\* handled like the disconnected event
OnTransportStateChangedResets(c, state) ==
    IF state \in {"connected", "ready"} /\ ~client[c].connectionHandled
    THEN /\ client' = [client EXCEPT ![c].connectionHandled = TRUE]
         /\ Commit("active", now)
    ELSE IF state = "disconnecting"
    THEN /\ client' = [client EXCEPT ![c].connectionHandled = FALSE]
         /\ Commit("idle", Null)
    ELSE /\ UNCHANGED client
         /\ NoRender

\* client.on("transportStateChanged", ...), lines 40-50
OnTransportStateChanged(c, state) ==
    IF state \in {"connected", "ready"} /\ ~client[c].connectionHandled
    THEN /\ client' = [client EXCEPT ![c].connectionHandled = TRUE]
         /\ Commit("active", now)
    ELSE /\ UNCHANGED client
         /\ NoRender

\* client.on("connected", ...), lines 52-59
OnConnected(c) ==
    IF ~client[c].connectionHandled
    THEN /\ client' = [client EXCEPT ![c].connectionHandled = TRUE]
         /\ Commit("active", now)
    ELSE /\ UNCHANGED client
         /\ NoRender

\* client.on("disconnected", ...), lines 61-66; cl is client with the transport
\* state the event reports
OnDisconnected(cl, c) ==
    /\ client' = [cl EXCEPT ![c].connectionHandled = FALSE]
    /\ Commit("idle", Null)

\* client.on("error", ...), lines 68-71
OnError(c) ==
    /\ UNCHANGED client
    /\ Commit("error", startTime)

\* PollCallback with a fault: an exhausted poll that finds the transport not
\* connected reports an error
PollCallbackTimeoutError(c) ==
    LET attempts == client[c].pollAttempts + 1
        isConnected == Connected(c)
    IN  IF isConnected /\ ~client[c].connectionHandled
        THEN /\ client' = [client EXCEPT ![c].pollAttempts = attempts,
                                          ![c].connectionPoll = FALSE,
                                          ![c].connectionHandled = TRUE]
             /\ Commit("active", now)
        ELSE IF attempts >= maxPollAttempts
        THEN IF Connected(c)
             THEN /\ client' = [client EXCEPT ![c].pollAttempts = attempts,
                                               ![c].connectionPoll = FALSE,
                                               ![c].connectionHandled = TRUE]
                  /\ Commit("active", now)
             ELSE /\ client' = [client EXCEPT ![c].pollAttempts = attempts,
                                               ![c].connectionPoll = FALSE]
                  /\ Commit("error", startTime)
        ELSE /\ client' = [client EXCEPT ![c].pollAttempts = attempts]
             /\ NoRender

\* PollCallback with a fault: the activating branch forgets clearInterval
PollCallbackKeepsPolling(c) ==
    LET attempts == client[c].pollAttempts + 1
        isConnected == Connected(c)
    IN  IF isConnected /\ ~client[c].connectionHandled
        THEN /\ client' = [client EXCEPT ![c].pollAttempts = attempts,
                                          ![c].connectionHandled = TRUE]
             /\ Commit("active", now)
        ELSE IF attempts >= maxPollAttempts
        THEN IF Connected(c)
             THEN /\ client' = [client EXCEPT ![c].pollAttempts = attempts,
                                               ![c].connectionPoll = FALSE,
                                               ![c].connectionHandled = TRUE]
                  /\ Commit("active", now)
             ELSE /\ client' = [client EXCEPT ![c].pollAttempts = attempts,
                                               ![c].connectionPoll = FALSE]
                  /\ NoRender
        ELSE /\ client' = [client EXCEPT ![c].pollAttempts = attempts]
             /\ NoRender

\* PollCallback with a fault: the attempt limit is tested with > instead of >=
PollCallbackOffByOne(c) ==
    LET attempts == client[c].pollAttempts + 1
        isConnected == Connected(c)
    IN  IF isConnected /\ ~client[c].connectionHandled
        THEN /\ client' = [client EXCEPT ![c].pollAttempts = attempts,
                                          ![c].connectionPoll = FALSE,
                                          ![c].connectionHandled = TRUE]
             /\ Commit("active", now)
        ELSE IF attempts > maxPollAttempts
        THEN IF Connected(c)
             THEN /\ client' = [client EXCEPT ![c].pollAttempts = attempts,
                                               ![c].connectionPoll = FALSE,
                                               ![c].connectionHandled = TRUE]
                  /\ Commit("active", now)
             ELSE /\ client' = [client EXCEPT ![c].pollAttempts = attempts,
                                               ![c].connectionPoll = FALSE]
                  /\ NoRender
        ELSE /\ client' = [client EXCEPT ![c].pollAttempts = attempts]
             /\ NoRender

\* setInterval callback connectionPoll, lines 115-139
PollCallback(c) ==
    LET attempts == client[c].pollAttempts + 1
        isConnected == Connected(c)
    IN  IF isConnected /\ ~client[c].connectionHandled
        THEN /\ client' = [client EXCEPT ![c].pollAttempts = attempts,
                                          ![c].connectionPoll = FALSE,
                                          ![c].connectionHandled = TRUE]
             /\ Commit("active", now)
        ELSE IF attempts >= maxPollAttempts
        THEN IF Connected(c)
             THEN /\ client' = [client EXCEPT ![c].pollAttempts = attempts,
                                               ![c].connectionPoll = FALSE,
                                               ![c].connectionHandled = TRUE]
                  /\ Commit("active", now)
             ELSE /\ client' = [client EXCEPT ![c].pollAttempts = attempts,
                                               ![c].connectionPoll = FALSE]
                  /\ NoRender
        ELSE /\ client' = [client EXCEPT ![c].pollAttempts = attempts]
             /\ NoRender

\* --------------------------------------------------- endCall (149-156)
\* EndCall with a fault: without a handle, setStartTime(null) is forgotten
EndCallKeepsStartTime ==
    IF clientRef # Null
    THEN /\ endAwait[clientRef] < MaxEndInFlight
         /\ client' = Disconnect(client, clientRef)
         /\ endAwait' = [endAwait EXCEPT ![clientRef] = @ + 1]
         /\ lastCall' = Call(clientRef, "disconnect")
         /\ NoRender
         /\ UNCHANGED <<isMuted, clientRef, nCalls, callPc, now, duration, cost>>
    ELSE /\ Commit("idle", startTime)
         /\ lastCall' = NoCall
         /\ UNCHANGED <<isMuted, clientRef, nCalls, callPc, client, endAwait,
                        now, duration, cost>>

\* lines 150-151 up to the await, or lines 154-155 when no handle is held
EndCall ==
    IF clientRef # Null
    THEN /\ endAwait[clientRef] < MaxEndInFlight
         /\ client' = Disconnect(client, clientRef)
         /\ endAwait' = [endAwait EXCEPT ![clientRef] = @ + 1]
         /\ lastCall' = Call(clientRef, "disconnect")
         /\ NoRender
         /\ UNCHANGED <<isMuted, clientRef, nCalls, callPc, now, duration, cost>>
    ELSE /\ Commit("idle", Null)
         /\ lastCall' = NoCall
         /\ UNCHANGED <<isMuted, clientRef, nCalls, callPc, client, endAwait,
                        now, duration, cost>>

\* line 151 resolved: lines 152-155
EndCallResume(c) ==
    /\ endAwait[c] > 0
    /\ endAwait' = [endAwait EXCEPT ![c] = @ - 1]
    /\ clientRef' = Null
    /\ Commit("idle", Null)
    /\ lastCall' = NoCall
    /\ UNCHANGED <<isMuted, nCalls, callPc, client, now, duration, cost>>

\* line 151 rejected: endCall has no catch, the rejection leaves the function
EndCallThrows(c) ==
    /\ endAwait[c] > 0
    /\ endAwait' = [endAwait EXCEPT ![c] = @ - 1]
    /\ lastCall' = NoCall
    /\ NoRender
    /\ UNCHANGED <<isMuted, clientRef, nCalls, callPc, client, now, duration, cost>>

\* ------------------------------------------------ toggleMute (158-164)
ToggleMute ==
    LET newMute == ~isMuted
    IN  /\ IF clientRef # Null
           THEN /\ client' = [client EXCEPT ![clientRef].mic = ~newMute]
                /\ isMuted' = newMute
                /\ lastCall' = Call(clientRef, IF ~newMute THEN "enableMic(true)"
                                                          ELSE "enableMic(false)")
           ELSE /\ UNCHANGED <<client, isMuted>>
                /\ lastCall' = NoCall
        /\ NoRender
        /\ UNCHANGED <<clientRef, nCalls, callPc, endAwait, now, duration, cost>>

\* ------------------------------------- the rendered controls (246-260)
\* the button calls startCall unless status is active; disabled while connecting
ClickStart == mounted /\ status \notin {"active", "connecting"} /\ StartCall

\* the same button calls endCall while status is active
ClickEnd == mounted /\ status = "active" /\ EndCall

\* the mute button is rendered only while status is active
ClickMute == mounted /\ status = "active" /\ ToggleMute

\* ------------------------------------------ the transport (environment)
rest == <<isMuted, clientRef, nCalls, callPc, endAwait, now, duration, cost>>

\* the transport of c gets connected
TransportAdvance(c) ==
    /\ client[c].tstate = "connecting"
    /\ client' = [client EXCEPT ![c].tstate = "connected"]
    /\ lastCall' = NoCall
    /\ NoRender
    /\ UNCHANGED rest

\* the peer or the network closes the transport of c
RemoteDrop(c) ==
    /\ Open(c)
    /\ client' = [client EXCEPT ![c].tstate = "disconnecting"]
    /\ lastCall' = NoCall
    /\ NoRender
    /\ UNCHANGED rest

\* "transportStateChanged" is delivered, carrying the state the transport is in
EvTransportStateChanged(c, state) ==
    /\ client[c].tstate # "none"
    /\ state \in Reported(client[c].tstate)
    /\ OnTransportStateChanged(c, state)
    /\ lastCall' = NoCall
    /\ UNCHANGED rest

\* "connected" is delivered while the transport is connected
EvConnected(c) ==
    /\ Connected(c)
    /\ OnConnected(c)
    /\ lastCall' = NoCall
    /\ UNCHANGED rest

\* "disconnected" is delivered once, when the transport has closed
EvDisconnected(c) ==
    /\ client[c].tstate = "disconnecting"
    /\ OnDisconnected([client EXCEPT ![c].tstate = "disconnected"], c)
    /\ lastCall' = NoCall
    /\ UNCHANGED rest

\* "error" is delivered while the transport is open
EvError(c) ==
    /\ Open(c)
    /\ OnError(c)
    /\ lastCall' = NoCall
    /\ UNCHANGED rest

\* the interval connectionPoll of c fires
PollTick(c) ==
    /\ client[c].connectionPoll
    /\ PollCallback(c)
    /\ lastCall' = NoCall
    /\ UNCHANGED rest

\* ------------------------------------------------- CostTracker (30-37)
\* the captured startTime of every pending tick interval
PendingTicks ==
    (IF timerRef.live THEN {timerRef.start} ELSE {})
        \cup {orphans[k] : k \in DOMAIN orphans}

\* the number of pending tick intervals
PendingTickCount == (IF timerRef.live THEN 1 ELSE 0) + Len(orphans)

\* TickCallback with a fault: the cost is computed from the elapsed time of
\* the previous render instead of the sample just taken
TickCallbackStaleCost(st) ==
    LET diff == now - st
    IN  /\ duration' = diff
        /\ cost' = duration * COST_PER_SECOND

\* setInterval callback, lines 33-36, of an interval created with startTime = st
TickCallback(st) ==
    LET diff == now - st
    IN  /\ duration' = diff
        /\ cost' = diff * COST_PER_SECOND

ClockTick ==
    /\ \E st \in PendingTicks : TickCallback(st)
    /\ ticked' = (status = "active")
    /\ lastCall' = NoCall
    /\ UNCHANGED <<status, startTime, timerRef, orphans, mounted>>
    /\ UNCHANGED <<isMuted, clientRef, nCalls, callPc, client, endAwait, now>>

\* Home is unmounted and CostTracker with it: the cleanup of the last effect
\* run, part_002:42-44
Unmount ==
    /\ mounted
    /\ mounted' = FALSE
    /\ timerRef' = ClearTimer(timerRef)
    /\ lastCall' = NoCall
    /\ UNCHANGED <<status, startTime, orphans, ticked>>
    /\ UNCHANGED <<isMuted, clientRef, nCalls, callPc, client, endAwait, now, duration, cost>>

\* the wall clock advances
AdvanceTime ==
    /\ now < MaxTime
    /\ now' = now + 1
    /\ lastCall' = NoCall
    /\ NoRender
    /\ UNCHANGED <<isMuted, clientRef, nCalls, callPc, client, endAwait, duration, cost>>

TransportStates == {"none", "connecting", "connected", "ready", "disconnecting",
                    "disconnected", "error"}

\* the continuations of one call, its transport's steps and its timers
CallSteps ==
    \/ \E i \in Clients : ConnectResolved(i)
    \/ \E i \in Clients : ConnectRejected(i)
    \/ \E c \in Clients : EndCallResume(c)
    \/ \E c \in Clients : EndCallThrows(c)
    \/ \E c \in Clients : TransportAdvance(c)
    \/ \E c \in Clients : RemoteDrop(c)
    \/ \E c \in Clients, st \in TransportStates : EvTransportStateChanged(c, st)
    \/ \E c \in Clients : EvConnected(c)
    \/ \E c \in Clients : EvDisconnected(c)
    \/ \E c \in Clients : EvError(c)
    \/ \E c \in Clients : PollTick(c)

\* the same steps, each recorded by the observer
ObservedCallSteps ==
    \/ \E i \in Clients : ConnectResolved(i) /\ lastOp' = Obs("connectResolved", i, "")
    \/ \E i \in Clients : ConnectRejected(i) /\ lastOp' = Obs("connectRejected", i, "")
    \/ \E c \in Clients : EndCallResume(c) /\ lastOp' = Obs("endCallResume", c, "")
    \/ \E c \in Clients : EndCallThrows(c) /\ lastOp' = Obs("endCallThrows", c, "")
    \/ \E c \in Clients : TransportAdvance(c) /\ lastOp' = Obs("transport", c, "")
    \/ \E c \in Clients : RemoteDrop(c) /\ lastOp' = Obs("transport", c, "")
    \/ \E c \in Clients, st \in TransportStates :
          EvTransportStateChanged(c, st) /\ lastOp' = Obs("transportStateChanged", c, st)
    \/ \E c \in Clients : EvConnected(c) /\ lastOp' = Obs("connected", c, "")
    \/ \E c \in Clients : EvDisconnected(c) /\ lastOp' = Obs("disconnected", c, "")
    \/ \E c \in Clients : EvError(c) /\ lastOp' = Obs("error", c, "")
    \/ \E c \in Clients : PollTick(c) /\ lastOp' = Obs("poll", c, "")
    \/ ClockTick /\ lastOp' = Obs("tick", Null, "")
    \/ AdvanceTime /\ lastOp' = Obs("time", Null, "")

\* the continuations of a startCall that found a handle to tear down
TeardownSteps ==
    \/ \E i \in Clients : StartCallResume(i)
    \/ \E i \in Clients : StartCallTeardownFailed(i)

\* One call of a page visit with the session clock and the wall clock: Home and
\* CostTracker as rendered, up to the second call-start request.
NextCall ==
    \/ nCalls = 0 /\ ClickStart /\ lastOp' = Obs("startCall", clientRef, "")
    \/ ClickEnd /\ lastOp' = Obs("endCall", clientRef, "")
    \/ ClickMute /\ lastOp' = Obs("toggleMute", clientRef, "")
    \/ ObservedCallSteps

SpecCall == Init /\ [][NextCall]_vars

\* One call, the controller's operations called in any status and not only
\* through the rendered controls.
NextApi ==
    \/ nCalls = 0 /\ StartCall /\ lastOp' = Obs("startCall", clientRef, "")
    \/ EndCall /\ lastOp' = Obs("endCall", clientRef, "")
    \/ ToggleMute /\ lastOp' = Obs("toggleMute", clientRef, "")
    \/ ObservedCallSteps

SpecApi == Init /\ [][NextApi]_vars

\* One call as in SpecCall, and the page torn down at any moment: the client,
\* its handlers and its poll outlive the components.
NextClock ==
    \/ NextCall
    \/ Unmount /\ lastOp' = Obs("unmount", Null, "")

SpecClock == Init /\ [][NextClock]_vars

\* The controller over several calls, Home as rendered.  The controller never
\* reads startTime or Date.now(), so the wall clock is left at one instant and
\* the observer is left out.
NextCtl ==
    /\ ClickStart \/ ClickEnd \/ ClickMute \/ CallSteps \/ TeardownSteps
    /\ UNCHANGED lastOp

SpecCtl == Init /\ [][NextCtl]_vars

\* ================================================================ claims
Activation == {"connected", "transportStateChanged", "poll"}

\* C1: once the latch of a call is set and the session is active, no
\* activation signal of that call (the connected event, a transportStateChanged
\* event, a poll tick up to the final one) changes status or assigns startTime
\* again.
C1_ActivatedOnce ==
    [][\A c \in Clients :
          (lastOp'.op \in Activation /\ lastOp'.c = c
              /\ client[c].connectionHandled /\ status = "active")
              => (status' = status /\ startTime' = startTime)]_vars

\* C2: startTime is set if and only if status is active.
C2_StartTimeIffActive == (startTime # Null) <=> (status = "active")

\* C3: an endCall that returns, entered in any status, leaves status idle and
\* startTime null; without a handle it returns in the step it was called in
\* and calls no transport method.
C3_EndCallReturnsIdle ==
    /\ (lastOp.op = "endCallResume" \/ (lastOp.op = "endCall" /\ lastOp.c = Null))
          => (status = "idle" /\ startTime = Null)
    /\ (lastOp.op = "endCall" /\ lastOp.c = Null) => lastCall = NoCall
    /\ lastOp.op = "endCallResume" => clientRef = Null

\* C3 witness: endCall was called in status error with no handle held
C3_Witness ==
    /\ lastOp.op = "endCall" /\ lastOp.c = Null /\ lastOp.from = "error"
    /\ status = "idle" /\ startTime = Null

\* C4: at most one client is open, and every client that was opened and whose
\* startCall is over is the one held or has had disconnect() called on it.
C4_OneOpenClient ==
    /\ Cardinality({c \in Clients : Open(c)}) <= 1
    /\ \A c \in Clients :
          (callPc[c] = "done" /\ client[c].tstate \notin {"none", "error"}
              /\ c # clientRef) => client[c].disconnectCalled

\* C5: when connect() is called on a new client, every other client that is
\* still open has had disconnect() called on it.
C5_TeardownBeforeConnect ==
    [][\A c \in Clients :
          lastCall' = Call(c, "connect")
              => \A d \in Clients \ {c} :
                    client[d].tstate \in {"connecting", "connected"}
                        => client[d].disconnectCalled]_vars

\* C6: a poll tick that samples connected = false changes neither status nor
\* startTime nor the latch, the tenth such tick cancels the timer, and no
\* timer or continuation other than a poll tick moves status on its own.
C6_StaysConnecting ==
    [][/\ \A c \in Clients :
            (lastOp'.op = "poll" /\ lastOp'.c = c /\ ~Connected(c))
                => /\ status' = status
                   /\ startTime' = startTime
                   /\ client'[c].connectionHandled = client[c].connectionHandled
                   /\ client'[c].connectionPoll
                         = (client'[c].pollAttempts < maxPollAttempts)
       /\ lastOp'.op \in {"tick", "time", "connectResolved", "transport"}
             => status' = status]_vars

\* C6 witness: ten poll ticks sampled false and the call is still connecting
C6_Witness ==
    \E c \in Clients :
        /\ lastOp.op = "poll" /\ lastOp.c = c
        /\ client[c].pollAttempts = maxPollAttempts
        /\ ~client[c].connectionPoll
        /\ ~client[c].connectionHandled
        /\ status = "connecting"

\* C7: while status stays active the elapsed time emitted by successive clock
\* ticks never decreases, and no clock tick runs while status is not active.
C7_ElapsedMonotone ==
    [][lastOp'.op = "tick"
          => /\ status = "active"
             /\ ticked => duration' >= duration]_vars

\* C8: a disconnected event in status active leaves status idle, startTime
\* null, the latch released, and neither that client's poll timer nor a clock
\* tick timer pending.
C8_DisconnectedResets ==
    \A c \in Clients :
        (lastOp.op = "disconnected" /\ lastOp.c = c /\ lastOp.from = "active")
            => /\ status = "idle"
               /\ startTime = Null
               /\ ~client[c].connectionHandled
               /\ ~client[c].connectionPoll
               /\ PendingTickCount = 0

\* C9: toggleMute in status active flips isMuted and calls enableMic with the
\* negation of the new value; toggleMute in status idle calls no transport
\* method.
C9_ToggleMute ==
    [][lastOp'.op = "toggleMute"
          => /\ status = "active"
                => /\ isMuted' = ~isMuted
                   /\ lastCall'.call = (IF isMuted' THEN "enableMic(false)"
                                                   ELSE "enableMic(true)")
             /\ status = "idle" => lastCall' = NoCall]_vars

\* C10: a poll tick that samples connected = true while the latch is clear
\* activates at that tick: status active, startTime = Date.now(), latch set,
\* timer cancelled; a poll tick that samples false does not activate.
C10_PollActivates ==
    [][\A c \in Clients :
          (lastOp'.op = "poll" /\ lastOp'.c = c)
              => /\ (Connected(c) /\ ~client[c].connectionHandled)
                    => /\ status' = "active"
                       /\ startTime' = now
                       /\ client'[c].connectionHandled
                       /\ ~client'[c].connectionPoll
                       /\ client'[c].pollAttempts = client[c].pollAttempts + 1
                 /\ (~Connected(c) /\ status # "active") => status' # "active"]_vars

\* C10 witness: the tenth poll tick was the first to sample true and activated
C10_Witness ==
    \E c \in Clients :
        /\ lastOp.op = "poll" /\ lastOp.c = c /\ lastOp.from = "connecting"
        /\ client[c].pollAttempts = maxPollAttempts
        /\ client[c].connectionHandled
        /\ ~client[c].connectionPoll
        /\ status = "active" /\ startTime = now

\* C11: in every state of the session clock the stored cost is the stored
\* elapsed time multiplied by COST_PER_SECOND.
C11_CostIsElapsedTimesRate == cost = duration * COST_PER_SECOND

\* C11 witness: a clock tick has stored a positive elapsed time and its cost
C11_Witness ==
    /\ lastOp.op = "tick"
    /\ duration > 0
    /\ cost = duration * COST_PER_SECOND

\* C12: in no state is the latch of a call set while the poll timer of the
\* same call is pending.
C12_LatchCancelsPoll ==
    \A c \in Clients : client[c].connectionHandled => ~client[c].connectionPoll

\* C13: once an endCall has completed and until the next startCall request,
\* no poll tick, event handler or successful connect completion leaves a state
\* in which status is not idle or startTime is not null.
C13_EndedStaysIdle ==
    [][(lastOp.ended
           /\ lastOp'.op \in {"poll", "connected", "transportStateChanged",
                               "disconnected", "error", "connectResolved"})
          => (status' = "idle" /\ startTime' = Null)]_vars

\* C14: in status error no connected event, transportStateChanged event,
\* disconnected event or poll tick changes status.
C14_ErrorSticky ==
    [][(status = "error"
           /\ lastOp'.op \in {"connected", "transportStateChanged", "disconnected", "poll"})
          => status' = "error"]_vars

\* C15: an endCall whose disconnect() failed still ends with status idle,
\* startTime null and no handle held.
C15_EndCallSwallowsFailure ==
    lastOp.op = "endCallThrows"
        => (status = "idle" /\ startTime = Null /\ clientRef = Null)

\* C16: a startCall that is over has issued connect() on its new client, also
\* when disconnect() of the previous handle failed.
C16_TeardownFailureStartsCall ==
    \A i \in Clients : callPc[i] = "done" => client[i].tstate # "none"

\* C17: the step in which connect() of a startCall fails leaves status error,
\* the handle slot empty and no poll timer of that call.
C17_ConnectFailureHoldsNothing ==
    [][\A i \in Clients :
          (callPc[i] = "awaitConnect" /\ callPc'[i] = "done"
              /\ client'[i].tstate = "error")
              => /\ status' = "error"
                 /\ clientRef' = Null
                 /\ ~client'[i].connectionPoll]_vars

\* C18: after a disconnected event that moved the session from active to idle
\* with no endCall under way, the handle slot is empty.
C18_DisconnectedReleasesHandle ==
    (/\ lastOp.op = "disconnected" /\ lastOp.from = "active" /\ status = "idle"
     /\ \A c \in Clients : endAwait[c] = 0)
        => clientRef = Null

\* C19: the poll of a call runs only after that call's connect() returned
\* successfully; it executes at most maxPollAttempts callbacks; the callback
\* that sets the latch and the tenth callback cancel the timer; a cancelled
\* timer never fires and is never started again.
C19_PollTerminates ==
    [][\A c \in Clients :
          /\ client'[c].pollAttempts <= maxPollAttempts
          /\ client'[c].connectionPoll
                => /\ callPc'[c] = "done"
                   /\ client'[c].tstate # "error"
                   /\ client'[c].pollAttempts < maxPollAttempts
          /\ (lastOp'.op = "poll" /\ lastOp'.c = c)
                => /\ client[c].connectionPoll
                   /\ client'[c].pollAttempts = client[c].pollAttempts + 1
                   /\ (client'[c].connectionHandled /\ ~client[c].connectionHandled)
                         => ~client'[c].connectionPoll
          /\ (callPc[c] = "done" /\ ~client[c].connectionPoll)
                => ~client'[c].connectionPoll]_vars

\* C19 witness: the latch was set by an event, the poll ran on while the
\* session was active and its tenth callback cancelled it
C19_Witness ==
    \E c \in Clients :
        /\ lastOp.op = "poll" /\ lastOp.c = c /\ lastOp.from = "active"
        /\ callPc[c] = "done"
        /\ client[c].pollAttempts = maxPollAttempts
        /\ ~client[c].connectionPoll

\* C20: every step that changes status to active starts with status
\* connecting.
C20_ActiveOnlyFromConnecting ==
    [][(status' = "active" /\ status # "active") => status = "connecting"]_vars

\* C21: every step that changes status to connecting starts with status idle.
C21_ConnectingOnlyFromIdle ==
    [][(status' = "connecting" /\ status # "connecting") => status = "idle"]_vars

\* C22: a transportStateChanged event carrying a state other than connected
\* or ready changes neither status nor startTime nor the latch.
C22_OtherStateNoOp ==
    [][\A c \in Clients :
          (lastOp'.op = "transportStateChanged" /\ lastOp'.c = c
              /\ lastOp'.arg \notin {"connected", "ready"})
              => /\ status' = status
                 /\ startTime' = startTime
                 /\ client'[c].connectionHandled = client[c].connectionHandled]_vars

\* C22 witness: transportStateChanged reported "disconnecting" while status
\* was active and the latch set, and both are as they were
C22_Witness ==
    \E c \in Clients :
        /\ lastOp.op = "transportStateChanged" /\ lastOp.c = c
        /\ lastOp.arg = "disconnecting" /\ lastOp.from = "active"
        /\ client[c].connectionHandled
        /\ status = "active" /\ startTime # Null

\* C23: whenever a handle is held, the microphone of the held client is
\* enabled if and only if isMuted is false.
C23_MutedAgreesWithMic ==
    clientRef # Null => (client[clientRef].mic <=> ~isMuted)

\* C24: at most one clock tick timer is pending; no timer survives the effect
\* run that replaced it; none is pending while status is not active or after
\* the components were unmounted.
C24_OneTickTimer ==
    /\ PendingTickCount <= 1
    /\ Len(orphans) = 0
    /\ status # "active" => PendingTickCount = 0
    /\ ~mounted => PendingTickCount = 0

\* C24 witness: the page was torn down during an active call after its clock
\* had ticked, and the timer the effect had created is no longer pending
C24_Witness ==
    /\ lastOp.op = "unmount" /\ lastOp.from = "active"
    /\ ~mounted
    /\ ticked
    /\ timerRef.set /\ ~timerRef.live
    /\ PendingTickCount = 0

====
